---- MODULE Spec2Model ----
(***************************************************************************)
(* Stern Insider Connected: the API client (token lifecycle, the          *)
(* retry-on-401 request, the high-score parser) and the update            *)
(* coordinator (poll cycle, new-score detection).                         *)
(*                                                                         *)
(* The specifications share the variables:                                *)
(*   Spec       the API client driven through its public operations;      *)
(*   SpecCoord  the coordinator's poll cycle over the API interface       *)
(*              (lists of Machine / HighScore returned, SternAPIError     *)
(*              kinds raised);                                             *)
(*   SpecScores the body of get_high_scores applied to upstream lists;    *)
(*   SpecCycle  the poll cycle's machine fetch through the API client;    *)
(*   SpecTerm   the client and the coordinator, each from its initial     *)
(*              state, with the fairness of a transport whose calls       *)
(*              return.                                                    *)
(*   SpecCancel SpecCoord with the host cancelling a cycle at an await;   *)
(*   SpecParsed the poll cycle with score lists built by get_high_scores; *)
(*   SpecHost   the config flow steps and the setup / unload of entries;  *)
(*   SpecSession the client's HTTP session over _ensure_session and       *)
(*              close calls, for each way of constructing the client.     *)
(***************************************************************************)
EXTENDS Integers, Sequences, FiniteSets, TLC

\* ------------------------------------------------------------------ bounds
\* number of clock advances in a behaviour
MaxTicks == 3
\* value of time.time() when the client is constructed
StartTime == 1000
\* longest upstream "high_score" list handed to the parser
MaxUpstream == 6
\* number of poll cycles in a behaviour
MaxCycles == 2
\* longest high-score list the API interface hands to the coordinator
MaxScores == 2
\* requests one read operation may send before the model stops sending
MaxSent == 3
\* number of poll cycles in a behaviour of SpecTerm
TermCycles == 1
\* longest upstream "high_score" list in a poll cycle of SpecParsed
MaxParsed == 1
\* number of async_setup_entry calls in a behaviour
MaxSetups == 3
\* number of _ensure_session and close calls in a behaviour of SpecSession
MaxSessionCalls == 5

\* ------------------------------------------------------- program constants
TOKEN_EXPIRY_BUFFER == 300
TOKEN_LIFETIME == 1800
TOP_SCORES == 5
HIGH_SCORE_COUNT == 5

None == "None"

\* values of the spb-insider-token cookie
Tokens == {"tok1", "tok2"}

\* clock advances: one second, and one second less than the usable lifetime
TickSteps == {1, TOKEN_LIFETIME - TOKEN_EXPIRY_BUFFER - 1}

\* what session.post(API_LOGIN_URL) can produce: a response (status, the
\* "authenticated" flag of the body, the token cookie or None), or an
\* aiohttp.ClientError
LoginStatuses == {200, 401, 403, 500}

LoginResponses ==
  [kind : {"response"}, status : LoginStatuses, authenticated : BOOLEAN,
   token : Tokens \cup {None}]

LoginClientError ==
  [kind |-> "ClientError", status |-> 0, authenticated |-> FALSE, token |-> None]

NoLogin ==
  [kind |-> "none", status |-> 0, authenticated |-> FALSE, token |-> None]

LoginOutcomes == LoginResponses \cup {LoginClientError}

\* what session.request(...) can produce: a status, or an aiohttp.ClientError
\* (status 0)
ResponseStatuses == {200, 401, 403, 500}
ClientErrorStatus == 0
RequestOutcomes == ResponseStatuses \cup {ClientErrorStatus}

ReadOps == {"get_machines", "get_high_scores", "get_teams"}

Url(o) ==
  CASE o = "get_machines" -> "user_registered_machines"
    [] o = "get_high_scores" -> "game_machine_high_scores"
    [] OTHER -> "game_teams"

VARIABLES
  \* ---- API client
  access_token,   \* self._access_token
  token_expiry,   \* self._token_expiry
  now,            \* time.time()
  ticks,          \* clock advances so far
  op,             \* the client operation in progress or last finished
  pc,             \* its position
  sent,           \* the read requests sent by the operation, in order
  statuses,       \* the statuses they were answered with, in order
  auths,          \* authenticate() calls made by the operation
  reauths,        \* of these, the calls made after a 401/403 answer
  ret,            \* what the operation returned or raised
  lastLogin,      \* history: the login outcome of the last authenticate()
  authAt,         \* history: time of the last successful authenticate(), -1 if none
  \* ---- update coordinator
  previous_scores, \* self._previous_scores: machine_id -> (rank -> score_id)
  data,            \* coordinator.data: the snapshot last returned by a cycle
  cpc,             \* position of the poll cycle
  cycles,          \* poll cycles started so far
  machines,        \* the list get_machines() returned in this cycle
  idx,             \* position of the loop over machines (1-based)
  result,          \* the dict the cycle is building
  events,          \* EVENT_NEW_HIGH_SCORE events fired in this cycle, in order
  cycleResult,     \* how the last cycle ended
  machinesErr,     \* history: outcome of this cycle's get_machines()
  fetched,         \* history: outcome of get_high_scores() per machine of the list
  calls,           \* history: the API calls of this cycle, in the order made
  inflight,        \* history: the API calls made and not yet answered
  platformSetup,   \* the sensor platform has been set up
  entities,        \* the sensors handed to async_add_entities
  lastOk,          \* history: per machine, the list of its last answered score fetch
  machinesBody,    \* history: the body of the 200 response to the machines request
  \* ---- get_high_scores applied to a response
  upstream,        \* the "high_score" list of the response body
  parsed,          \* the list get_high_scores returned
  parsePc,         \* "ready" before the call, "done" after it
  \* ---- host: config entries, config flow, integration setup
  entries,         \* config entries: username -> stored password
  loaded,          \* entries whose coordinator is in hass.data[DOMAIN]
  domainInData,    \* DOMAIN in hass.data
  staticPaths,     \* registrations of the card's static path so far
  setups,          \* calls of async_setup_entry so far
  flowStep,        \* the step the config flow handled last
  flowValidate,    \* what validate_credentials() returned or raised in it
  flowResult,      \* the kind of ConfigFlowResult it returned
  flowError,       \* errors["base"] of the form it showed
  \* ---- the client's HTTP session
  session,         \* self._session
  owns_session,    \* self._owns_session
  closedSess,      \* the sessions whose .closed is True
  created,         \* aiohttp.ClientSession() objects _ensure_session made so far
  closing,         \* the session a close() call in progress is closing
  supplied,        \* history: the session argument of the constructor
  closedByClose,   \* history: the sessions close() has closed
  sessLog          \* history: the _ensure_session and close calls of SpecSession, in order

clientVars ==
  <<access_token, token_expiry, now, ticks, op, pc, sent, statuses, auths,
    reauths, ret, lastLogin, authAt>>

coordVars ==
  <<previous_scores, data, cpc, cycles, machines, idx, result, events,
    cycleResult, machinesErr, fetched, calls, inflight, platformSetup,
    entities, lastOk, machinesBody>>

scoreVars == <<upstream, parsed, parsePc>>

hostVars ==
  <<entries, loaded, domainInData, staticPaths, setups, flowStep,
    flowValidate, flowResult, flowError>>

sessionVars ==
  <<session, owns_session, closedSess, created, closing, supplied,
    closedByClose, sessLog>>

vars == <<clientVars, coordVars, scoreVars, hostVars, sessionVars>>

\* ------------------------------------------------------------ HTTP session

\* session objects: the one the caller hands to the constructor, and the
\* n-th one the client makes; NoSession stands for None
NoSession == [owner |-> "none", n |-> 0]

SuppliedSession == [owner |-> "caller", n |-> 0]

OwnSession(n) == [owner |-> "client", n |-> n]

\* api.py:50  self._owns_session = session is None
OwnsSessionAlways(s) == TRUE

OwnsSession(s) == s = NoSession

\* api.py:39-53: the session fields after __init__(..., session=s)
Construct(s) ==
  /\ session = s
  /\ owns_session = OwnsSession(s)
  /\ supplied = s
  /\ created = 0
  /\ closing = NoSession
  /\ closedByClose = {}
  /\ sessLog = <<>>

\* coordinator.py:58-63: the coordinator's client gets the host's shared
\* session, which is open
SessionInit ==
  /\ Construct(SuppliedSession)
  /\ closedSess = {}

\* a client constructed without a session, with an open one, with a closed one
SessionInitAny ==
  \E s \in {NoSession, SuppliedSession} :
    /\ Construct(s)
    /\ closedSess \in SUBSET ({s} \ {NoSession})

\* api.py:55-60: the assignments of _ensure_session
EnsureSessionEffect ==
  IF session = NoSession \/ session \in closedSess
    THEN /\ session' = OwnSession(created + 1)
         /\ created' = created + 1
         /\ owns_session' = TRUE
    ELSE UNCHANGED <<session, created, owns_session>>

\* api.py:55-60
EnsureSession ==
  /\ Len(sessLog) < MaxSessionCalls
  /\ EnsureSessionEffect
  /\ sessLog' = Append(sessLog, "_ensure_session")
  /\ UNCHANGED <<closedSess, closing, supplied, closedByClose>>
  /\ UNCHANGED <<clientVars, coordVars, scoreVars, hostVars>>

\* api.py:62-65: close() up to its await: the condition, and the session
\* whose close() is awaited
Close ==
  /\ Len(sessLog) < MaxSessionCalls
  /\ closing = NoSession
  /\ sessLog' = Append(sessLog, "close")
  /\ closing' = IF owns_session /\ session # NoSession /\ session \notin closedSess
                  THEN session ELSE NoSession
  /\ UNCHANGED <<session, owns_session, closedSess, created, supplied,
                 closedByClose>>
  /\ UNCHANGED <<clientVars, coordVars, scoreVars, hostVars>>

\* api.py:65: the awaited session.close() returns: that session is closed
CloseReturns ==
  /\ closing # NoSession
  /\ closedSess' = closedSess \cup {closing}
  /\ closedByClose' = closedByClose \cup {closing}
  /\ closing' = NoSession
  /\ UNCHANGED <<session, owns_session, created, supplied, sessLog>>
  /\ UNCHANGED <<clientVars, coordVars, scoreVars, hostVars>>

\* the caller closes the session it handed to the constructor
CallerCloses ==
  /\ supplied = SuppliedSession
  /\ SuppliedSession \notin closedSess
  /\ closedSess' = closedSess \cup {SuppliedSession}
  /\ UNCHANGED <<session, owns_session, created, closing, supplied,
                 closedByClose, sessLog>>
  /\ UNCHANGED <<clientVars, coordVars, scoreVars, hostVars>>

\* ------------------------------------------------------------- API client

\* api.py:67-71
IsTokenValidLate(tok, exp, t) ==
  tok # None /\ t <= exp - TOKEN_EXPIRY_BUFFER

IsTokenValid(tok, exp, t) ==
  tok # None /\ t < exp - TOKEN_EXPIRY_BUFFER

\* api.py:135  response.status == 200 and (authenticated or token)
LoginAccepted(o) ==
  o.kind = "response" /\ o.status = 200 /\ (o.authenticated \/ o.token # None)

\* api.py:97-158: what _do_authenticate returns or raises
DoAuthenticate(o, tok, exp, t) ==
  IF o.kind = "ClientError"
    THEN [ret |-> "SternConnectionError", token |-> tok, expiry |-> exp]
    ELSE IF LoginAccepted(o)
      THEN [ret |-> "True", token |-> o.token, expiry |-> t + TOKEN_LIFETIME]
      ELSE [ret |-> "SternAuthenticationError", token |-> tok, expiry |-> exp]

\* the assignments of one authenticate() call that met login outcome o
AuthEffect(o) ==
  LET a == DoAuthenticate(o, access_token, token_expiry, now) IN
  /\ access_token' = a.token
  /\ token_expiry' = a.expiry
  /\ lastLogin' = o
  /\ authAt' = IF a.ret = "True" THEN now ELSE authAt

ClientInit ==
  /\ access_token = None
  /\ token_expiry = 0
  /\ now = StartTime
  /\ ticks = 0
  /\ op = "none"
  /\ pc = "idle"
  /\ sent = <<>>
  /\ statuses = <<>>
  /\ auths = 0
  /\ reauths = 0
  /\ ret = "none"
  /\ lastLogin = NoLogin
  /\ authAt = -1

\* time passes
Tick ==
  /\ ticks < MaxTicks
  /\ \E d \in TickSteps : now' = now + d
  /\ ticks' = ticks + 1
  /\ UNCHANGED <<access_token, token_expiry, op, pc, sent, statuses, auths,
                 reauths, ret, lastLogin, authAt>>
  /\ UNCHANGED <<coordVars, scoreVars, hostVars, sessionVars>>

\* api.py:73-78: a caller runs authenticate()
Authenticate ==
  /\ pc \in {"idle", "done"}
  /\ \E o \in LoginOutcomes :
       /\ AuthEffect(o)
       /\ ret' = DoAuthenticate(o, access_token, token_expiry, now).ret
  /\ op' = "authenticate"
  /\ pc' = "done"
  /\ sent' = <<>>
  /\ statuses' = <<>>
  /\ auths' = 1
  /\ reauths' = 0
  /\ UNCHANGED <<now, ticks>>
  /\ UNCHANGED <<coordVars, scoreVars, hostVars, sessionVars>>

\* api.py:300-308: what validate_credentials makes of authenticate()'s outcome
ValidateResultPassThrough(r) == r

ValidateResult(r) ==
  IF r = "True" THEN "True"
  ELSE IF r = "SternAuthenticationError" THEN "False"
  ELSE r

\* api.py:300-308
ValidateCredentials ==
  /\ pc \in {"idle", "done"}
  /\ \E o \in LoginOutcomes :
       /\ AuthEffect(o)
       /\ ret' = ValidateResult(DoAuthenticate(o, access_token, token_expiry, now).ret)
  /\ op' = "validate_credentials"
  /\ pc' = "done"
  /\ sent' = <<>>
  /\ statuses' = <<>>
  /\ auths' = 1
  /\ reauths' = 0
  /\ UNCHANGED <<now, ticks>>
  /\ UNCHANGED <<coordVars, scoreVars, hostVars, sessionVars>>

\* api.py:213-216, 245-248, 275-277: a read operation enters _request
StartReadEffect(o) ==
  /\ pc \in {"idle", "done"}
  /\ op' = o
  /\ pc' = "ensure"
  /\ sent' = <<>>
  /\ statuses' = <<>>
  /\ auths' = 0
  /\ reauths' = 0
  /\ ret' = "none"
  /\ UNCHANGED <<access_token, token_expiry, now, ticks, lastLogin, authAt>>

StartRead ==
  /\ \E o \in ReadOps : StartReadEffect(o)
  /\ UNCHANGED <<coordVars, scoreVars, hostVars, sessionVars>>

\* api.py:160-163, called at api.py:184 (pc "ensure") and api.py:195
\* (pc "reauth"); an error of authenticate() leaves _request
EnsureAuthenticated ==
  /\ pc \in {"ensure", "reauth"}
  /\ IF IsTokenValid(access_token, token_expiry, now)
       THEN /\ pc' = IF pc = "ensure" THEN "send" ELSE "retry"
            /\ UNCHANGED <<access_token, token_expiry, lastLogin, authAt,
                           auths, reauths, ret>>
       ELSE \E o \in LoginOutcomes :
            LET r == DoAuthenticate(o, access_token, token_expiry, now).ret IN
            /\ AuthEffect(o)
            /\ auths' = auths + 1
            /\ reauths' = IF pc = "reauth" THEN reauths + 1 ELSE reauths
            /\ IF r = "True"
                 THEN /\ pc' = IF pc = "ensure" THEN "send" ELSE "retry"
                      /\ ret' = ret
                 ELSE /\ pc' = "done"
                      /\ ret' = r
  /\ UNCHANGED <<now, ticks, op, sent, statuses>>
  /\ UNCHANGED <<coordVars, scoreVars, hostVars, sessionVars>>

\* api.py:194  self._access_token = None
TokenKeptAfterRejection(tok) == tok

TokenAfterRejection(tok) == None

\* api.py:185, 191-194, 207-211: the session, the first request and its answer
SendRequest ==
  /\ pc = "send"
  /\ Len(sent) < MaxSent
  /\ \E s \in RequestOutcomes :
       /\ sent' = Append(sent, [url |-> Url(op), bearer |-> access_token])
       /\ statuses' = Append(statuses, s)
       /\ IF s \in {401, 403}
            THEN /\ access_token' = TokenAfterRejection(access_token)
                 /\ pc' = "reauth"
                 /\ ret' = ret
            ELSE /\ access_token' = access_token
                 /\ pc' = "done"
                 /\ ret' = IF s = 200 THEN "json" ELSE "SternConnectionError"
  /\ UNCHANGED <<token_expiry, now, ticks, op, auths, reauths, lastLogin,
                 authAt>>
  /\ EnsureSessionEffect
  /\ UNCHANGED <<closedSess, closing, supplied, closedByClose, sessLog>>
  /\ UNCHANGED <<coordVars, scoreVars, hostVars>>

\* api.py:196-205, 210-211: the retried request and its answer
RetryGoesOn(s) == IF s \in {401, 403} THEN "send" ELSE "done"

RetryNext(s) == "done"

RetryRequest ==
  /\ pc = "retry"
  /\ Len(sent) < MaxSent
  /\ \E s \in RequestOutcomes :
       /\ sent' = Append(sent, [url |-> Url(op), bearer |-> access_token])
       /\ statuses' = Append(statuses, s)
       /\ pc' = RetryNext(s)
       /\ ret' = IF s \in {401, 403} THEN "SternAuthenticationError"
                 ELSE IF s = 200 THEN "json" ELSE "SternConnectionError"
  /\ UNCHANGED <<access_token, token_expiry, now, ticks, op, auths, reauths,
                 lastLogin, authAt>>
  /\ UNCHANGED <<coordVars, scoreVars, hostVars, sessionVars>>

\* ------------------------------------------------------ update coordinator
\* The coordinator is modelled over the interface of the API client: a call
\* returns a list (of Machine, of HighScore) or raises one of the
\* SternAPIError kinds.

MachineIds == {"m1", "m2"}

\* api.py:25-34
APIErrors == {"SternAuthenticationError", "SternConnectionError", "SternAPIError"}

\* models.py:19-27: a Machine as get_machines() hands it over (high_scores empty)
Machine(id) == [machine_id |-> id, high_scores |-> <<>>]

\* no 200 response to the machines request in this cycle
NoBody == [shape |-> "none", n |-> 0]

\* lists of machines with distinct ids
MachineLists ==
  {<<>>} \cup {<<Machine(a)>> : a \in MachineIds}
         \cup {<<Machine(p[1]), Machine(p[2])>> :
                 p \in {q \in MachineIds \X MachineIds : q[1] # q[2]}}

\* leaderboard entries: a score id and the score it stands for
ScoreEntries == {[id |-> "A", score |-> 10], [id |-> "B", score |-> 20]}

\* models.py:6-16
HighScore(e, r) == [score_id |-> e.id, rank |-> r, score |-> e.score]

\* lists of HighScore with ranks 1..n, n <= MaxScores
ScoreLists ==
  UNION {{[i \in 1..n |-> HighScore(f[i], i)] : f \in [1..n -> ScoreEntries]} :
         n \in 0..MaxScores}

EmptyDict == <<>>

\* d[k] = v
Put(d, k, v) == [x \in DOMAIN d \cup {k} |-> IF x = k THEN v ELSE d[x]]

\* coordinator.py:103  self._previous_scores.get(machine_id, {})
PreviousOf(prev, id) == IF id \in DOMAIN prev THEN prev[id] ELSE EmptyDict

\* coordinator.py:110-111
IsNewEntryNoneCounts(previous, score) ==
  score.rank \notin DOMAIN previous \/ previous[score.rank] # score.score_id

IsNewEntry(previous, score) ==
  score.rank \in DOMAIN previous /\ previous[score.rank] # score.score_id

\* coordinator.py:104-107: the rank -> score_id map of a list (a later entry
\* of the same rank replaces an earlier one)
RECURSIVE CurrentOf(_)
CurrentOf(hs) ==
  IF hs = <<>> THEN EmptyDict
  ELSE LET last == hs[Len(hs)] IN
       Put(CurrentOf(SubSeq(hs, 1, Len(hs) - 1)), last.rank, last.score_id)

\* coordinator.py:126-141
NewScoreEvent(machine, score) ==
  [machine_id |-> machine.machine_id, score |-> score.score,
   rank |-> score.rank, is_new_entry |-> TRUE]

\* coordinator.py:106-121: the events fired for a list, in list order
RECURSIVE FiredFor(_, _, _)
FiredFor(machine, previous, hs) ==
  IF hs = <<>> THEN <<>>
  ELSE LET rest == FiredFor(machine, previous, SubSeq(hs, 1, Len(hs) - 1))
           last == hs[Len(hs)]
       IN IF IsNewEntry(previous, last)
            THEN Append(rest, NewScoreEvent(machine, last))
            ELSE rest

\* coordinator.py:81-87: the except branch of one machine's score fetch
ScoreFetchFailedDrops(res, machine) == res

ScoreFetchFailed(res, machine) == Put(res, machine.machine_id, machine)

\* coordinator.py:91-98
CycleFailureGeneric(err) == "UpdateFailed"

CycleFailure(err) ==
  IF err = "SternAuthenticationError" THEN "ConfigEntryAuthFailed"
  ELSE "UpdateFailed"

\* coordinator.py:124  self._previous_scores[machine_id] = current
UpdatePreviousKeepsRanks(prev, id, current) ==
  Put(prev, id, [r \in DOMAIN PreviousOf(prev, id) \cup DOMAIN current |->
                   IF r \in DOMAIN current THEN current[r]
                   ELSE PreviousOf(prev, id)[r]])

UpdatePrevious(prev, id, current) == Put(prev, id, current)

\* coordinator.py:81-87: the handler of a failed score fetch does not touch
\* _previous_scores
PreviousAfterFailureDropped(prev, id) == [m \in DOMAIN prev \ {id} |-> prev[m]]

PreviousAfterFailure(prev, id) == prev

\* coordinator.py:81  except SternAPIError, with the classes of api.py:25-34
IsSternAPIErrorBaseOnly(err) == err = "SternAPIError"

IsSternAPIError(err) ==
  err \in {"SternAPIError", "SternAuthenticationError", "SternConnectionError"}

\* coordinator.py:73  the for loop has run over every machine
LoopDoneEarly(i, ms) == i >= Len(ms)

LoopDone(i, ms) == i > Len(ms)

\* the API calls of a cycle
MachinesCall == [op |-> "get_machines", machine_id |-> None]

ScoresCall(id) == [op |-> "get_high_scores", machine_id |-> id]

\* coordinator.py:73-75: the call the loop makes at position i, awaited
\* before the loop goes on
LoopCallsAllAtOnce(i, ms) ==
  IF i = 1 THEN [j \in 1..Len(ms) |-> ScoresCall(ms[j].machine_id)] ELSE <<>>

LoopCalls(i, ms) ==
  IF i <= Len(ms) THEN <<ScoresCall(ms[i].machine_id)>> ELSE <<>>

Range(seq) == {seq[i] : i \in 1..Len(seq)}

CoordInit ==
  /\ calls = <<>>
  /\ inflight = {}
  /\ platformSetup = FALSE
  /\ entities = <<>>
  /\ lastOk = EmptyDict
  /\ machinesBody = NoBody
  /\ previous_scores = EmptyDict
  /\ data = EmptyDict
  /\ cpc = "idle"
  /\ cycles = 0
  /\ machines = <<>>
  /\ idx = 0
  /\ result = EmptyDict
  /\ events = <<>>
  /\ cycleResult = "none"
  /\ machinesErr = "none"
  /\ fetched = <<>>

\* coordinator.py:72  result = {}
NewResultFromData(d) == d

NewResult(d) == EmptyDict

\* coordinator.py:66-69: the assignments of a cycle's start, up to the call
\* of get_machines()
StartCycleEffect ==
  /\ cpc = "idle"
  /\ cycles < MaxCycles
  /\ cycles' = cycles + 1
  /\ cpc' = "machines"
  /\ machines' = <<>>
  /\ idx' = 0
  /\ result' = NewResult(data)
  /\ events' = <<>>
  /\ cycleResult' = "none"
  /\ machinesErr' = "none"
  /\ fetched' = <<>>
  /\ calls' = <<MachinesCall>>
  /\ inflight' = {MachinesCall}
  /\ machinesBody' = NoBody
  /\ UNCHANGED <<previous_scores, data, platformSetup, entities, lastOk>>

\* coordinator.py:66-69: the host scheduler starts a cycle, which calls
\* get_machines()
StartCycle ==
  /\ StartCycleEffect
  /\ UNCHANGED <<clientVars, scoreVars, hostVars, sessionVars>>

\* coordinator.py:69-72, 91-98: get_machines() returns or raises
FetchMachines ==
  /\ cpc = "machines"
  /\ \/ \E ml \in MachineLists :
          /\ machines' = ml
          /\ machinesErr' = "ok"
          /\ idx' = 1
          /\ cpc' = "scores"
          /\ cycleResult' = cycleResult
          /\ calls' = calls \o LoopCalls(1, ml)
          /\ inflight' = (inflight \ {MachinesCall}) \cup Range(LoopCalls(1, ml))
     \/ \E err \in APIErrors :
          /\ machinesErr' = err
          /\ cycleResult' = CycleFailure(err)
          /\ cpc' = "idle"
          /\ inflight' = inflight \ {MachinesCall}
          /\ UNCHANGED <<machines, idx, calls>>
  /\ UNCHANGED <<previous_scores, data, cycles, result, events, fetched,
                 platformSetup, entities, lastOk, machinesBody>>
  /\ UNCHANGED <<clientVars, scoreVars, hostVars, sessionVars>>

\* coordinator.py:73-87, 100-124: one turn of the loop; get_high_scores()
\* returns (the machine is stored with its scores, the scores are compared
\* with the previous ones, events fire, the previous scores of the machine
\* are replaced) or raises a SternAPIError (the machine is stored as it is)
FetchScoresEffect(lists) ==
  /\ cpc = "scores"
  /\ idx <= Len(machines)
  /\ LET machine == machines[idx]
         id == machine.machine_id
         answered == inflight \ {ScoresCall(id)}
     IN \/ \E hs \in lists :
             LET previous == PreviousOf(previous_scores, id) IN
             /\ result' = Put(result, id, [machine EXCEPT !.high_scores = hs])
             /\ events' = events \o FiredFor(machine, previous, hs)
             /\ previous_scores' = UpdatePrevious(previous_scores, id, CurrentOf(hs))
             /\ fetched' = Append(fetched, [ok |-> TRUE, scores |-> hs, err |-> None])
             /\ lastOk' = Put(lastOk, id, hs)
             /\ idx' = idx + 1
             /\ calls' = calls \o LoopCalls(idx + 1, machines)
             /\ inflight' = answered \cup Range(LoopCalls(idx + 1, machines))
             /\ UNCHANGED <<cpc, cycleResult>>
        \/ \E err \in APIErrors :
             /\ fetched' = Append(fetched, [ok |-> FALSE, scores |-> <<>>, err |-> err])
             /\ previous_scores' = PreviousAfterFailure(previous_scores, id)
             /\ UNCHANGED <<events, lastOk>>
             /\ IF IsSternAPIError(err)
                  THEN /\ result' = ScoreFetchFailed(result, machine)
                       /\ idx' = idx + 1
                       /\ calls' = calls \o LoopCalls(idx + 1, machines)
                       /\ inflight' = answered \cup Range(LoopCalls(idx + 1, machines))
                       /\ UNCHANGED <<cpc, cycleResult>>
                  ELSE /\ cycleResult' = CycleFailure(err)
                       /\ cpc' = "idle"
                       /\ inflight' = answered
                       /\ UNCHANGED <<result, idx, calls>>
  /\ UNCHANGED <<data, cycles, machines, machinesErr, platformSetup, entities,
                 machinesBody>>

\* the lists come from the API interface
FetchScores ==
  /\ FetchScoresEffect(ScoreLists)
  /\ UNCHANGED <<clientVars, scoreVars, hostVars, sessionVars>>

\* coordinator.py:89: the loop is over, the cycle returns the dict, which
\* the host stores as coordinator.data
Publish ==
  /\ cpc = "scores"
  /\ LoopDone(idx, machines)
  /\ data' = result
  /\ cycleResult' = "snapshot"
  /\ cpc' = "idle"
  /\ UNCHANGED <<previous_scores, cycles, machines, idx, result, events,
                 machinesErr, fetched, calls, inflight, platformSetup, entities,
                 lastOk, machinesBody>>
  /\ UNCHANGED <<clientVars, scoreVars, hostVars, sessionVars>>

\* coordinator.py:69, 75: the host tears the integration down and cancels
\* the cycle while it awaits get_machines() or get_high_scores();
\* CancelledError is no SternAPIError, passes every handler of
\* coordinator.py:81-98 and the cycle returns nothing; the coordinator runs
\* no further cycle
Cancel ==
  /\ cpc \in {"machines", "scores"}
  /\ inflight # {}
  /\ cpc' = "cancelled"
  /\ cycleResult' = "CancelledError"
  /\ inflight' = {}
  /\ UNCHANGED <<previous_scores, data, cycles, machines, idx, result, events,
                 machinesErr, fetched, calls, platformSetup, entities, lastOk,
                 machinesBody>>
  /\ UNCHANGED <<clientVars, scoreVars, hostVars, sessionVars>>

\* ------------------------------------- poll cycle through the API client

\* what the body of the 200 response to the machines request can be: not
\* JSON by its content type, JSON by its content type but not parseable, a
\* JSON list, or a JSON object holding n machines under "user"/"machines"
\* or under "machines"
MachineBodies ==
  [shape : {"wrong_content_type", "invalid_json", "list", "user", "machines"},
   n : 0..1]

\* api.py:208, 210-211, 217-243 with models.py:19-27: what get_machines()
\* makes of the body: response.json() raises ContentTypeError (an
\* aiohttp.ClientError) or JSONDecodeError; a list has no .get; Machine()
\* is called with keywords the dataclass does not have
GetMachines(body) ==
  CASE body.shape = "wrong_content_type" -> "SternConnectionError"
    [] body.shape = "invalid_json" -> "JSONDecodeError"
    [] body.shape = "list" -> "AttributeError"
    [] OTHER -> IF body.n > 0 THEN "TypeError" ELSE "ok"

\* coordinator.py:91-98: what the handlers of _async_update_data make of an
\* exception of get_machines()
CycleRaises(err) == IF IsSternAPIError(err) THEN CycleFailure(err) ELSE err

\* coordinator.py:66-69 with api.py:213-216: a cycle starts and get_machines()
\* enters _request
CycleStart ==
  /\ StartCycleEffect
  /\ StartReadEffect("get_machines")
  /\ UNCHANGED <<scoreVars, hostVars, sessionVars>>

\* coordinator.py:69-72, 89-98 with api.py:217-243: _request has returned or
\* raised; get_machines() returns its list or raises, and the cycle goes on
\* or ends
MachinesReturn ==
  /\ cpc = "machines"
  /\ op = "get_machines"
  /\ pc = "done"
  /\ \E body \in (IF ret = "json" THEN MachineBodies ELSE {NoBody}) :
       LET outcome == IF ret = "json" THEN GetMachines(body) ELSE ret IN
       /\ machinesBody' = body
       /\ machinesErr' = outcome
       /\ inflight' = inflight \ {MachinesCall}
       /\ IF outcome = "ok"
            THEN /\ machines' = <<>>
                 /\ idx' = 1
                 /\ cpc' = "scores"
                 /\ cycleResult' = cycleResult
            ELSE /\ cycleResult' = CycleRaises(outcome)
                 /\ cpc' = "idle"
                 /\ UNCHANGED <<machines, idx>>
  /\ UNCHANGED <<previous_scores, data, cycles, result, events, fetched,
                 calls, platformSetup, entities, lastOk>>
  /\ UNCHANGED <<clientVars, scoreVars, hostVars, sessionVars>>

\* ------------------------------------------------------- sensor platform

\* const.py:31-37
HIGH_SCORE_NAMES ==
  <<"Grand Champion", "High Score #1", "High Score #2", "High Score #3",
    "High Score #4">>

\* sensor.py:50-71, 80-83: what a sensor keeps of its constructor arguments
Sensor(machine, rank) ==
  [machine_id |-> machine.machine_id, rank |-> rank,
   name |-> HIGH_SCORE_NAMES[rank]]

\* sensor.py:31-38: the sensors of one machine
SensorsOfShort(machine) ==
  [r \in 1..(HIGH_SCORE_COUNT - 1) |-> Sensor(machine, r)]

SensorsOf(machine) == [r \in 1..HIGH_SCORE_COUNT |-> Sensor(machine, r)]

\* sensor.py:27-38: the sensors of the machines ids of snapshot d
RECURSIVE SetupEntities(_, _)
SetupEntities(d, ids) ==
  IF ids = {} THEN <<>>
  ELSE LET id == CHOOSE x \in ids : TRUE
       IN SensorsOf(d[id]) \o SetupEntities(d, ids \ {id})

\* a sensor value: a score, or None
Absent == [present |-> FALSE, value |-> 0]

Value(n) == [present |-> TRUE, value |-> n]

\* sensor.py:92-95: the score of the first entry of the rank
RECURSIVE FirstOfRank(_, _)
FirstOfRank(hs, rank) ==
  IF hs = <<>> THEN Absent
  ELSE IF Head(hs).rank = rank THEN Value(Head(hs).score)
  ELSE FirstOfRank(Tail(hs), rank)

\* sensor.py:73-78, 85-95: native_value of sensor e when coordinator.data is d
NativeValueOfTop(d, e) ==
  IF d = EmptyDict \/ e.machine_id \notin DOMAIN d THEN Absent
  ELSE LET hs == d[e.machine_id].high_scores
       IN IF hs = <<>> THEN Absent ELSE Value(Head(hs).score)

NativeValue(d, e) ==
  IF d = EmptyDict \/ e.machine_id \notin DOMAIN d THEN Absent
  ELSE LET hs == d[e.machine_id].high_scores
       IN IF hs = <<>> THEN Absent ELSE FirstOfRank(hs, e.rank)

\* models.py:19-27: the fields of the Machine dataclass
MachineFields == {"machine_id", "name", "game_title", "image_url", "high_scores"}

\* sensor.py:104-118: the fields of the machine extra_state_attributes reads
AttributeReads ==
  {"name", "machine_id", "game_title", "square_logo_url",
   "variable_width_logo_url", "backglass_image_url", "background_image_url",
   "gradient_start", "gradient_stop", "high_scores"}

\* what extra_state_attributes hands back: a dict, or an error raised
Attributes(a) == [raises |-> "none", attrs |-> a]

AttributesRaise(err) == [raises |-> err, attrs |-> EmptyDict]

\* sensor.py:73-78, 97-128: extra_state_attributes of sensor e when
\* coordinator.data is d; the keys of the dict stand for the dict
ExtraStateAttributesUnguarded(d, e) ==
  IF d = EmptyDict \/ e.machine_id \notin DOMAIN d \/ AttributeReads \ MachineFields # {}
    THEN AttributesRaise("AttributeError")
  ELSE Attributes([k \in {"rank"} \cup (AttributeReads \ {"high_scores"}) |-> k])

ExtraStateAttributes(d, e) ==
  IF d = EmptyDict \/ e.machine_id \notin DOMAIN d THEN Attributes(EmptyDict)
  ELSE IF AttributeReads \ MachineFields # {}
    THEN AttributesRaise("AttributeError")
  ELSE Attributes([k \in {"rank"} \cup (AttributeReads \ {"high_scores"}) |-> k])

\* __init__.py:83-90, sensor.py:19-40: when the first refresh has returned
\* its snapshot the sensor platform is set up, once
SetupPlatform ==
  /\ ~platformSetup
  /\ cycles = 1
  /\ cpc = "idle"
  /\ cycleResult = "snapshot"
  /\ entities' = SetupEntities(data, DOMAIN data)
  /\ platformSetup' = TRUE
  /\ UNCHANGED <<previous_scores, data, cpc, cycles, machines, idx, result,
                 events, cycleResult, machinesErr, fetched, calls, inflight,
                 lastOk, machinesBody>>
  /\ UNCHANGED <<clientVars, scoreVars, hostVars, sessionVars>>

\* --------------------------------------------------------- get_high_scores

\* a Python str is a sequence of characters
Digits == <<"0", "1", "2", "3", "4", "5", "6", "7", "8", "9">>

DigitValue(c) == (CHOOSE i \in 1..10 : Digits[i] = c) - 1

\* str.isdigit(): not empty and every character a digit
IsDigit(chars) ==
  /\ chars # <<>>
  /\ \A i \in 1..Len(chars) : \E d \in 1..10 : Digits[d] = chars[i]

\* int() of a string of digits
RECURSIVE IntOf(_)
IntOf(chars) ==
  IF chars = <<>> THEN 0
  ELSE 10 * IntOf(SubSeq(chars, 1, Len(chars) - 1)) + DigitValue(chars[Len(chars)])

\* str() of a natural number
RECURSIVE Str(_)
Str(n) ==
  IF n < 10 THEN Digits[n + 1] ELSE Str(n \div 10) \o Digits[(n % 10) + 1]

\* the values "score" takes in an upstream item: a string, an integer
StrValue(chars) == [type |-> "str", chars |-> chars, int |-> 0]
IntValue(n) == [type |-> "int", chars |-> <<>>, int |-> n]

UpScores == {StrValue(<<"1", "5">>), StrValue(<<"1", "x">>), IntValue(-7)}

\* the "rank" field of an upstream item, 0 when the item has none
UpRanks == {0, 4}

UpItems == [score : UpScores, rank : UpRanks]

UpstreamLists == UNION {[1..n -> UpItems] : n \in 0..MaxUpstream}

\* api.py:258-260
ScoreValue(v) ==
  IF v.type = "str"
    THEN IF IsDigit(v.chars) THEN IntOf(v.chars) ELSE 0
    ELSE v.int

\* api.py:254-271: the HighScore built for the item at 0-based index i - 1
ParsedScoreIdByScore(item, i) ==
  [score_id |-> Str((i + ScoreValue(item.score)) % 10), rank |-> i,
   score |-> ScoreValue(item.score)]

ParsedScore(item, i) ==
  [score_id |-> Str(i), rank |-> i, score |-> ScoreValue(item.score)]

\* api.py:250-273
GetHighScoresUntruncated(scores_list) ==
  [i \in 1..Len(scores_list) |-> ParsedScore(scores_list[i], i)]

GetHighScores(scores_list) ==
  LET high_scores == [i \in 1..Len(scores_list) |-> ParsedScore(scores_list[i], i)]
  IN SubSeq(high_scores, 1, IF Len(high_scores) < TOP_SCORES
                              THEN Len(high_scores) ELSE TOP_SCORES)

ScoresIdle ==
  /\ upstream = <<>>
  /\ parsed = <<>>
  /\ parsePc = "idle"

\* api.py:245-273: get_high_scores on a response whose list is upstream
ParseHighScores ==
  /\ parsePc = "ready"
  /\ parsed' = GetHighScores(upstream)
  /\ parsePc' = "done"
  /\ UNCHANGED <<upstream, clientVars, coordVars, hostVars, sessionVars>>

\* the lists get_high_scores() makes of upstream lists of up to MaxParsed items
ParsedLists ==
  {GetHighScores(u) : u \in UNION {[1..n -> UpItems] : n \in 0..MaxParsed}}

\* coordinator.py:75 with api.py:245-273: the lists come from get_high_scores()
FetchParsedScores ==
  /\ FetchScoresEffect(ParsedLists)
  /\ UNCHANGED <<clientVars, scoreVars, hostVars, sessionVars>>

\* ---------------------------------------------------------------- host

Usernames == {"u1", "u2"}

Passwords == {"p1", "p2"}

HostInit ==
  /\ entries = EmptyDict
  /\ loaded = {}
  /\ domainInData = FALSE
  /\ staticPaths = 0
  /\ setups = 0
  /\ flowStep = "none"
  /\ flowValidate = "none"
  /\ flowResult = "none"
  /\ flowError = "none"

\* config_flow.py:51-58, 94-101: validate_credentials() on a new client
FlowValidate(o) == ValidateResult(DoAuthenticate(o, None, 0, now).ret)

\* config_flow.py:58, 101  if await api.validate_credentials():
CredentialsAcceptedAlways(r) == r \in {"True", "False"}

CredentialsAccepted(r) == r = "True"

\* config_flow.py:63-70, 109-116: errors["base"] of the form shown again
FlowError(r) ==
  CASE r \in {"False", "SternAuthenticationError"} -> "invalid_auth"
    [] r = "SternConnectionError" -> "cannot_connect"
    [] OTHER -> "unknown"

\* config_flow.py:39-76: the user step; without input the empty form is
\* shown, a configured username aborts the flow
StepUser ==
  /\ flowStep' = "user"
  /\ \/ /\ flowValidate' = "none"
        /\ flowResult' = "form"
        /\ flowError' = "none"
        /\ entries' = entries
     \/ \E u \in Usernames, p \in Passwords, o \in LoginOutcomes :
          IF u \in DOMAIN entries
            THEN /\ flowValidate' = "none"
                 /\ flowResult' = "abort"
                 /\ flowError' = "none"
                 /\ entries' = entries
            ELSE LET r == FlowValidate(o) IN
                 /\ flowValidate' = r
                 /\ IF CredentialsAccepted(r)
                      THEN /\ entries' = Put(entries, u, p)
                           /\ flowResult' = "create_entry"
                           /\ flowError' = "none"
                      ELSE /\ entries' = entries
                           /\ flowResult' = "form"
                           /\ flowError' = FlowError(r)
  /\ UNCHANGED <<loaded, domainInData, staticPaths, setups>>
  /\ UNCHANGED <<clientVars, coordVars, scoreVars, sessionVars>>

\* config_flow.py:84-125: the reauth step of an existing entry
StepReauthConfirm ==
  /\ flowStep' = "reauth_confirm"
  /\ \E u \in DOMAIN entries :
       \/ /\ flowValidate' = "none"
          /\ flowResult' = "form"
          /\ flowError' = "none"
          /\ entries' = entries
       \/ \E p \in Passwords, o \in LoginOutcomes :
            LET r == FlowValidate(o) IN
            /\ flowValidate' = r
            /\ IF CredentialsAccepted(r)
                 THEN /\ entries' = Put(entries, u, p)
                      /\ flowResult' = "abort"
                      /\ flowError' = "none"
                 ELSE /\ entries' = entries
                      /\ flowResult' = "form"
                      /\ flowError' = FlowError(r)
  /\ UNCHANGED <<loaded, domainInData, staticPaths, setups>>
  /\ UNCHANGED <<clientVars, coordVars, scoreVars, sessionVars>>

\* what async_config_entry_first_refresh() can do: return, or raise
FirstRefreshOutcomes == {"ok", "ConfigEntryNotReady", "ConfigEntryAuthFailed"}

\* __init__.py:62-64: the static path is registered in this call
RegistersStaticPath(inData, wwwExists) == ~inData /\ wwwExists

\* __init__.py:59-95: async_setup_entry of an entry that is not loaded; the
\* www directory exists or not, the first refresh returns or raises
SetupEntry ==
  /\ setups < MaxSetups
  /\ setups' = setups + 1
  /\ \E u \in DOMAIN entries \ loaded, wwwExists \in BOOLEAN,
        refresh \in FirstRefreshOutcomes :
       /\ staticPaths' = IF RegistersStaticPath(domainInData, wwwExists)
                           THEN staticPaths + 1 ELSE staticPaths
       /\ IF refresh = "ok"
            THEN /\ domainInData' = TRUE
                 /\ loaded' = loaded \cup {u}
            ELSE UNCHANGED <<domainInData, loaded>>
  /\ UNCHANGED <<entries, flowStep, flowValidate, flowResult, flowError>>
  /\ UNCHANGED <<clientVars, coordVars, scoreVars, sessionVars>>

\* __init__.py:98-102: async_unload_entry; the platforms unload or not
UnloadEntry ==
  /\ \E u \in loaded, unload_ok \in BOOLEAN :
       loaded' = IF unload_ok THEN loaded \ {u} ELSE loaded
  /\ UNCHANGED <<entries, domainInData, staticPaths, setups, flowStep,
                 flowValidate, flowResult, flowError>>
  /\ UNCHANGED <<clientVars, coordVars, scoreVars, sessionVars>>

\* ------------------------------------------------------ claims: API client

FirstRejected ==
  op \in ReadOps /\ Len(statuses) >= 1 /\ statuses[1] \in {401, 403}

\* C1 (as stated): a read operation whose first response was 401 or 403 has,
\* when it ends, re-authenticated exactly once and sent the request exactly
\* twice, and a rejected retry ended it with AuthenticationError.
C1_AlwaysResent ==
  (FirstRejected /\ pc = "done") =>
    /\ reauths = 1
    /\ Len(sent) = 2
    /\ sent[2].url = sent[1].url
    /\ (statuses[2] \in {401, 403} => ret = "SternAuthenticationError")

\* C1 (amended): after a first response of 401 or 403 the cached token is
\* discarded and authenticate() runs exactly once; the same request is sent
\* a second time exactly when that re-authentication succeeded, and not at
\* all when it failed (the operation then ends with the authentication's
\* error); a retried response of 401 or 403 ends the operation with
\* AuthenticationError; no operation sends a third request.
C1_RetryOnce ==
  /\ Len(sent) <= 2
  /\ FirstRejected =>
       /\ pc = "reauth" => (access_token = None /\ reauths = 0 /\ Len(sent) = 1)
       /\ pc \in {"retry", "done"} => reauths = 1
       /\ pc = "retry" => (Len(sent) = 1 /\ LoginAccepted(lastLogin))
       /\ pc = "done" =>
            /\ Len(sent) = 2 <=> LoginAccepted(lastLogin)
            /\ Len(sent) = 1 =>
                 ret \in {"SternAuthenticationError", "SternConnectionError"}
            /\ Len(sent) = 2 =>
                 /\ sent[2].url = sent[1].url
                 /\ statuses[2] \in {401, 403} => ret = "SternAuthenticationError"

C1_Witness ==
  /\ FirstRejected /\ pc = "done" /\ Len(sent) = 2
  /\ statuses[2] \in {401, 403}
  /\ ret = "SternAuthenticationError"

\* C2: the token is valid exactly while it is present and fewer than 1500 s
\* have passed since the authentication that set its expiry to now + 1800;
\* it is invalid when no token is set and when the expiry is 0.
C2_TokenValidity ==
  /\ access_token = None => ~IsTokenValid(access_token, token_expiry, now)
  /\ token_expiry = 0 => ~IsTokenValid(access_token, token_expiry, now)
  /\ access_token # None =>
       /\ authAt >= 0
       /\ IsTokenValid(access_token, token_expiry, now) <=> now - authAt < 1500

C2_Witness ==
  /\ access_token # None
  /\ now - authAt = 1500
  /\ ~IsTokenValid(access_token, token_expiry, now)

ValidateDone == op = "validate_credentials" /\ pc = "done"

\* C3 (as stated): validate_credentials() never raises: it returns true when
\* authenticate() succeeded and false in every other case.
C3_NeverRaises ==
  ValidateDone =>
    /\ ret \in {"True", "False"}
    /\ ret = "True" <=> LoginAccepted(lastLogin)

\* C3 (amended): validate_credentials() returns true when authenticate()
\* succeeds and false when authenticate() raises AuthenticationError, which
\* it never lets through; a ConnectionError of authenticate() is raised to
\* the caller.
C3_ValidateCredentials ==
  ValidateDone =>
    /\ ret \in {"True", "False", "SternConnectionError"}
    /\ ret = "True" <=> LoginAccepted(lastLogin)
    /\ ret = "False" <=> (lastLogin.kind = "response" /\ ~LoginAccepted(lastLogin))
    /\ ret = "SternConnectionError" <=> lastLogin.kind = "ClientError"

C3_Witness ==
  ValidateDone /\ ret = "False" /\ lastLogin.status = 401

AuthenticateDone == op = "authenticate" /\ pc = "done"

\* C4: when authenticate() has returned True the client holds the token of
\* the login response (not None) and an expiry in the future, so the token
\* is valid at that moment.
C4_SuccessSetsToken ==
  (AuthenticateDone /\ ret = "True" /\ now = authAt) =>
    /\ access_token # None
    /\ access_token = lastLogin.token
    /\ token_expiry > now
    /\ IsTokenValid(access_token, token_expiry, now)

\* C5: when authenticate() has raised AuthenticationError no token is set on
\* the client, whatever was cached before the call.
C5_FailureLeavesNoToken ==
  (AuthenticateDone /\ ret = "SternAuthenticationError") => access_token = None

\* C6: authenticate() raises AuthenticationError for every login response
\* with status 401 or 403 or without a token, and ConnectionError for every
\* transport failure.
C6_AuthenticateErrors ==
  AuthenticateDone =>
    /\ (lastLogin.kind = "response"
          /\ (lastLogin.status \in {401, 403} \/ lastLogin.token = None))
       => ret = "SternAuthenticationError"
    /\ lastLogin.kind = "ClientError" => ret = "SternConnectionError"

\* C11: no read request is sent while the client holds no valid token: when
\* _request is about to send (first request or retry) the token is present
\* and its expiry minus the buffer is still ahead.
C11_ValidTokenBeforeSend ==
  pc \in {"send", "retry"} => IsTokenValid(access_token, token_expiry, now)

\* C16: a read operation that ends on a transport failure raises
\* SternConnectionError, one that ends on a 401/403 of the retry or on a
\* failed re-authentication raises SternAuthenticationError, and one that
\* ends on any other non-2xx status raises the plain SternAPIError.
C16_ErrorTaxonomy ==
  (op \in ReadOps /\ pc = "done" /\ statuses # <<>>) =>
    LET last == statuses[Len(statuses)] IN
    /\ last = ClientErrorStatus => ret = "SternConnectionError"
    /\ (last \in {401, 403} /\ Len(statuses) = 2) => ret = "SternAuthenticationError"
    /\ (last \in {401, 403} /\ Len(statuses) = 1) =>
         ret \in {"SternAuthenticationError", "SternConnectionError"}
    /\ last \notin {200, 401, 403, ClientErrorStatus} => ret = "SternAPIError"

\* C30: when the re-authentication after a 401/403 fails, the read operation
\* ends with no token cached, and a read operation that starts without a
\* token authenticates before it sends; when the re-authentication succeeds
\* and the retry is rejected again, the client keeps the token and the expiry
\* that re-authentication set.
C30_Step ==
  /\ (pc = "reauth" /\ pc' = "done") =>
       /\ access_token' = None
       /\ Len(sent') = 1
       /\ ret' \in {"SternAuthenticationError", "SternConnectionError"}
  /\ (pc = "ensure" /\ access_token = None /\ pc' = "send") =>
       /\ auths' = 1
       /\ sent' = <<>>
  /\ (pc = "retry" /\ pc' = "done" /\ statuses'[Len(statuses')] \in {401, 403}) =>
       /\ reauths' = 1
       /\ LoginAccepted(lastLogin')
       /\ access_token' = lastLogin'.token
       /\ token_expiry' = authAt' + 1800

C30_TokenAfterRetry == [][C30_Step]_vars

C30_Witness ==
  /\ op \in ReadOps /\ pc = "done"
  /\ statuses = <<401>>
  /\ ~LoginAccepted(lastLogin)
  /\ access_token = None
  /\ token_expiry > now

\* ----------------------------------------------------- claims: coordinator

\* C7: a successful score fetch for machine m fires, for every rank r of the
\* fetched list, exactly one event for (m, r) when a previous score id was
\* recorded for (m, r) and differs from the new one, and none otherwise (in
\* particular none when no previous id was recorded); it fires no other event.
C7_Step ==
  (cpc = "scores" /\ Len(fetched') = Len(fetched) + 1 /\ fetched'[Len(fetched')].ok) =>
    LET id == machines[idx].machine_id
        hs == fetched'[Len(fetched')].scores
        fired == SubSeq(events', Len(events) + 1, Len(events'))
        Count(r) ==
          Cardinality({i \in 1..Len(fired) :
                         fired[i].machine_id = id /\ fired[i].rank = r})
        Replaced(r, sid) ==
          /\ id \in DOMAIN previous_scores
          /\ r \in DOMAIN previous_scores[id]
          /\ previous_scores[id][r] # sid
    IN /\ Len(events') >= Len(events)
       /\ SubSeq(events', 1, Len(events)) = events
       /\ \A i \in 1..Len(hs) :
            Count(hs[i].rank) = IF Replaced(hs[i].rank, hs[i].score_id) THEN 1 ELSE 0
       /\ \A i \in 1..Len(fired) :
            /\ fired[i].machine_id = id
            /\ \E j \in 1..Len(hs) : hs[j].rank = fired[i].rank

C7_NewScoreDetection == [][C7_Step]_vars

C7_Witness ==
  /\ cpc = "scores"
  /\ Len(events) = 1
  /\ events[1].machine_id = "m1" /\ events[1].rank = 1
  /\ previous_scores["m1"][1] = "B"

C9_MachineFetchFailure ==
  /\ machinesErr = "SternAuthenticationError" =>
       (cpc = "idle" /\ cycleResult = "ConfigEntryAuthFailed")
  /\ machinesErr \in {"SternConnectionError", "SternAPIError"} =>
       (cpc = "idle" /\ cycleResult = "UpdateFailed")
  /\ machinesErr \in APIErrors => (result = EmptyDict /\ fetched = <<>>)

C9_Witness ==
  /\ machinesErr = "SternAuthenticationError"
  /\ cycleResult = "ConfigEntryAuthFailed"
  /\ cycles = 2 /\ data # EmptyDict

\* C12 (as stated): when a cycle has returned its snapshot the previous-score
\* map holds exactly the entries obtained in that cycle: the machines whose
\* scores were fetched, each with the rank -> score id map of its list.
C12_WholeMapReplaced ==
  (cpc = "idle" /\ cycleResult = "snapshot") =>
    /\ DOMAIN previous_scores =
         {machines[i].machine_id : i \in {j \in 1..Len(fetched) : fetched[j].ok}}
    /\ \A i \in 1..Len(fetched) :
         fetched[i].ok =>
           /\ DOMAIN previous_scores[machines[i].machine_id] =
                {fetched[i].scores[j].rank : j \in 1..Len(fetched[i].scores)}
           /\ \A j \in 1..Len(fetched[i].scores) :
                previous_scores[machines[i].machine_id][fetched[i].scores[j].rank]
                  = fetched[i].scores[j].score_id

\* C12 (amended): after a machine's successful score fetch the previous-score
\* entries of that machine are replaced by the rank -> score id map of the
\* fetched list, with no rank left over from earlier cycles; the entries of
\* machines not fetched in the cycle are not part of the replacement.
C12_MachineEntryReplaced ==
  (machinesErr = "ok" /\ cpc \in {"scores", "idle"}) =>
    \A i \in 1..Len(fetched) :
      fetched[i].ok =>
        /\ machines[i].machine_id \in DOMAIN previous_scores
        /\ DOMAIN previous_scores[machines[i].machine_id] =
             {fetched[i].scores[j].rank : j \in 1..Len(fetched[i].scores)}
        /\ \A j \in 1..Len(fetched[i].scores) :
             previous_scores[machines[i].machine_id][fetched[i].scores[j].rank]
               = fetched[i].scores[j].score_id

C12_Witness ==
  /\ cpc = "scores" /\ cycles >= 2
  /\ Len(fetched) = 1 /\ fetched[1].ok /\ Len(fetched[1].scores) = 1
  /\ machines[1].machine_id \in DOMAIN data
  /\ Len(data[machines[1].machine_id].high_scores) = 2
  /\ DOMAIN previous_scores[machines[1].machine_id] = {1}

\* C13: the value of the sensor of (m, r) is the score of the entry of rank r
\* in m's list of the current snapshot, and absent when the snapshot has no
\* such machine or no such rank.
C13_SensorValue ==
  \A i \in 1..Len(entities) :
    LET e == entities[i]
        Entries ==
          IF e.machine_id \in DOMAIN data
            THEN {j \in 1..Len(data[e.machine_id].high_scores) :
                    data[e.machine_id].high_scores[j].rank = e.rank}
            ELSE {}
    IN IF Entries = {}
         THEN ~NativeValue(data, e).present
         ELSE /\ NativeValue(data, e).present
              /\ \A j \in Entries :
                   NativeValue(data, e).value = data[e.machine_id].high_scores[j].score

C13_Witness ==
  /\ platformSetup /\ cycles >= 2 /\ cpc = "idle" /\ cycleResult = "snapshot"
  /\ \E i \in 1..Len(entities) :
       /\ entities[i].rank = 2
       /\ NativeValue(data, entities[i]) = Value(20)
  /\ \E i \in 1..Len(entities) : entities[i].machine_id \notin DOMAIN data

\* C14: the platform setup creates, for every machine of the snapshot,
\* exactly 5 sensors, one per rank 1..5, named "Grand Champion",
\* "High Score #1", "High Score #2", "High Score #3", "High Score #4".
C14_Step ==
  (~platformSetup /\ platformSetup') =>
    /\ Len(entities') = 5 * Cardinality(DOMAIN data)
    /\ \A id \in DOMAIN data : \A r \in 1..5 :
         LET units == {i \in 1..Len(entities') :
                         entities'[i].machine_id = id /\ entities'[i].rank = r}
         IN /\ Cardinality(units) = 1
            /\ \A i \in units :
                 entities'[i].name =
                   CASE r = 1 -> "Grand Champion"
                     [] r = 2 -> "High Score #1"
                     [] r = 3 -> "High Score #2"
                     [] r = 4 -> "High Score #3"
                     [] OTHER -> "High Score #4"

C14_FiveSensorsPerMachine == [][C14_Step]_vars

C14_Witness ==
  /\ platformSetup
  /\ Len(entities) = 10
  /\ \E i \in 1..Len(entities) :
       entities[i].rank = 5 /\ entities[i].name = "High Score #4"

\* C15: every poll cycle ends by returning a snapshot or by raising
\* ConfigEntryAuthFailed or UpdateFailed, whatever the upstream answers; no
\* other error leaves _async_update_data.
C15_FailuresContained ==
  cpc = "idle" =>
    cycleResult \in {"none", "snapshot", "ConfigEntryAuthFailed", "UpdateFailed"}

\* C24: when the machines request is answered 200 with a body of one of the
\* shapes nested-under-user, top-level "machines" key or flat list,
\* get_machines() raises nothing and returns one Machine per upstream item.
C24_EnvelopeShapes ==
  (cpc # "machines" /\ machinesBody.shape \in {"user", "machines", "list"}) =>
    /\ machinesErr = "ok"
    /\ Len(machines) = machinesBody.n
    /\ \A i \in 1..Len(machines) : machines[i].high_scores = <<>>

\* C17 (as stated): while a score fetch of the cycle is still outstanding no
\* event is fired and the previous-score map is not modified.
C17_NoDiffWhileFetching ==
  [][(cpc = "scores" /\ cpc' = "scores" /\ idx' <= Len(machines'))
       => (previous_scores' = previous_scores /\ events' = events)]_vars

\* C17 (amended): the cycle goes from the machine fetch to the score fetches
\* to the publication; the scores of a machine are compared (events fired,
\* the machine's previous scores replaced) when that machine's own fetch has
\* returned, before the next machine's fetch, and all score fetches are over
\* when the snapshot is published.
C17_Step ==
  /\ cpc' # cpc =>
       <<cpc, cpc'>> \in {<<"idle", "machines">>, <<"machines", "scores">>,
                          <<"machines", "idle">>, <<"scores", "idle">>}
  /\ (previous_scores' # previous_scores \/ Len(events') > Len(events)) =>
       /\ cpc = "scores" /\ cpc' = "scores"
       /\ idx <= Len(machines) /\ idx' = idx + 1
       /\ Len(fetched') = idx /\ fetched'[idx].ok
       /\ \A m \in DOMAIN previous_scores :
            m # machines[idx].machine_id =>
              (m \in DOMAIN previous_scores' /\ previous_scores'[m] = previous_scores[m])
       /\ \A i \in (Len(events) + 1)..Len(events') :
            events'[i].machine_id = machines[idx].machine_id
  /\ (cycleResult' = "snapshot" /\ cycleResult # "snapshot") =>
       (Len(fetched) = Len(machines) /\ data' = result)

C17_PhaseOrder == [][C17_Step]_vars

C17_Witness ==
  /\ cpc = "scores" /\ Len(machines) = 2 /\ idx = 2
  /\ Len(events) >= 1
  /\ events[1].machine_id = machines[1].machine_id

C19_Terminates ==
  /\ [](Len(sent) <= 2 /\ auths <= 2 /\ Len(calls) <= Len(machines) + 1)
  /\ (pc \in {"ensure", "send", "reauth", "retry"}) ~> (pc = "done")
  /\ (cpc \in {"machines", "scores"}) ~> (cpc = "idle")

C19_Witness ==
  /\ op \in ReadOps /\ pc = "done"
  /\ Len(sent) = 2 /\ auths = 2
  /\ statuses = <<401, 403>>

\* C20: the API calls of a cycle are made one after the other: at most one
\* is awaiting its answer, the machine-list call is answered before any
\* score call is made, and the score calls follow the order of the list.
C20_Sequential ==
  /\ Cardinality(inflight) <= 1
  /\ cycles > 0 =>
       /\ Len(calls) >= 1 /\ calls[1] = MachinesCall
       /\ Len(calls) >= 2 => (machinesErr = "ok" /\ MachinesCall \notin inflight)
       /\ Len(calls) <= Len(fetched) + 2
       /\ \A i \in 2..Len(calls) :
            /\ i - 1 <= Len(machines)
            /\ calls[i] = [op |-> "get_high_scores",
                           machine_id |-> machines[i - 1].machine_id]
       /\ \A c \in inflight : c = calls[Len(calls)]

C20_Witness ==
  /\ cpc = "scores" /\ Len(machines) = 2 /\ idx = 2
  /\ Len(calls) = 3
  /\ inflight = {[op |-> "get_high_scores", machine_id |-> machines[2].machine_id]}

\* C21: the published snapshot changes only when a cycle returns after the
\* score fetch of every machine of its list has been answered, and then it
\* becomes that cycle's dict; a cycle that fails or is cancelled leaves the
\* published snapshot as it was.
C21_Step ==
  /\ data' # data =>
       /\ cpc = "scores" /\ cpc' = "idle"
       /\ cycleResult' = "snapshot"
       /\ cycleResult = "none"
       /\ Len(fetched) = Len(machines)
       /\ inflight = {}
       /\ data' = result
  /\ (cpc \in {"machines", "scores"} /\ cpc' \in {"idle", "cancelled"}
        /\ cycleResult' # "snapshot") => data' = data

C21_NoPartialSnapshot == [][C21_Step]_vars

C21_Witness ==
  /\ cpc = "cancelled" /\ cycleResult = "CancelledError"
  /\ Len(machines) = 2 /\ Len(fetched) = 1 /\ fetched[1].ok
  /\ data # EmptyDict
  /\ result # EmptyDict /\ result # data

\* C28: the snapshot a completed cycle returns has exactly the machine ids of
\* that cycle's machine list as keys; a machine whose score fetch failed is
\* in it with an empty high-score list, one whose fetch succeeded with the
\* list fetched.
C28_SnapshotKeys ==
  (cpc = "idle" /\ cycleResult = "snapshot") =>
    /\ DOMAIN data = {machines[i].machine_id : i \in 1..Len(machines)}
    /\ Len(fetched) = Len(machines)
    /\ \A i \in 1..Len(machines) :
         data[machines[i].machine_id].high_scores =
           IF fetched[i].ok THEN fetched[i].scores ELSE <<>>

C28_Witness ==
  /\ cpc = "idle" /\ cycleResult = "snapshot" /\ cycles = 2
  /\ Len(machines) = 1 /\ ~fetched[1].ok
  /\ machines[1].machine_id \in DOMAIN lastOk
  /\ lastOk[machines[1].machine_id] # <<>>
  /\ Cardinality(DOMAIN lastOk) = 2

\* C31: the set of sensors is fixed at platform setup from the snapshot of
\* that moment: no later step of a poll cycle adds or removes a sensor, so a
\* machine that first appears in a later snapshot has no sensor, and the
\* sensors of a machine that is no longer in the snapshot remain, with an
\* absent value and empty attributes.
C31_Step ==
  /\ entities' # entities =>
       /\ ~platformSetup /\ platformSetup'
       /\ entities' = SetupEntities(data, DOMAIN data)
  /\ platformSetup =>
       /\ platformSetup'
       /\ entities' = entities
       /\ \A id \in DOMAIN data' :
            (\A i \in 1..Len(entities) : entities[i].machine_id # id) =>
              (\A i \in 1..Len(entities') : entities'[i].machine_id # id)
       /\ \A i \in 1..Len(entities') :
            entities'[i].machine_id \notin DOMAIN data' =>
              /\ NativeValue(data', entities'[i]) = Absent
              /\ ExtraStateAttributes(data', entities'[i]) = Attributes(EmptyDict)

C31_UnitsFixedAtSetup == [][C31_Step]_vars

C31_Witness ==
  /\ platformSetup /\ cycles >= 2 /\ cpc = "idle" /\ cycleResult = "snapshot"
  /\ Len(entities) = HIGH_SCORE_COUNT
  /\ \E i \in 1..Len(entities) : entities[i].machine_id \notin DOMAIN data
  /\ \E id \in DOMAIN data :
       \A i \in 1..Len(entities) : entities[i].machine_id # id

\* C29: the previous-score entry of a machine changes only when a score fetch
\* of that machine is answered with a list; a failed score fetch, a machine
\* list without the machine and a failed machine fetch leave it as it is, so
\* the entry always is the rank -> score id map of the machine's last
\* successfully fetched list.
C29_Step ==
  /\ \A m \in MachineIds :
       PreviousOf(previous_scores', m) # PreviousOf(previous_scores, m) =>
         /\ cpc = "scores" /\ machinesErr = "ok" /\ idx <= Len(machines)
         /\ machines[idx].machine_id = m
         /\ fetched'[idx].ok
  /\ DOMAIN previous_scores \subseteq DOMAIN previous_scores'
  /\ DOMAIN previous_scores' = DOMAIN lastOk'
  /\ \A m \in DOMAIN lastOk' :
       /\ DOMAIN previous_scores'[m] =
            {lastOk'[m][j].rank : j \in 1..Len(lastOk'[m])}
       /\ \A j \in 1..Len(lastOk'[m]) :
            previous_scores'[m][lastOk'[m][j].rank] = lastOk'[m][j].score_id

C29_FailedFetchKeepsPrevious == [][C29_Step]_vars

C29_Witness ==
  /\ cpc = "idle" /\ cycleResult = "snapshot" /\ cycles = 2
  /\ Len(machines) = 2 /\ ~fetched[1].ok /\ fetched[2].ok
  /\ machines[1].machine_id \in DOMAIN previous_scores
  /\ previous_scores[machines[1].machine_id] # EmptyDict
  /\ data[machines[1].machine_id].high_scores = <<>>

\* C27: with the lists get_high_scores() builds, the score id of every entry
\* is the decimal string of its rank, the id recorded for a (machine, rank) is
\* that same string in every cycle, and no new-high-score event is fired.
C27_NoEventEver ==
  LET Decimal == <<"1", "2", "3", "4", "5">> IN
  /\ events = <<>>
  /\ \A i \in 1..Len(fetched) : \A j \in 1..Len(fetched[i].scores) :
       fetched[i].scores[j].score_id = Decimal[fetched[i].scores[j].rank]
  /\ \A m \in DOMAIN previous_scores : \A r \in DOMAIN previous_scores[m] :
       previous_scores[m][r] = Decimal[r]

C27_Witness ==
  /\ cycles = 2 /\ cpc = "scores" /\ Len(fetched) = 1 /\ fetched[1].ok
  /\ machines[1].machine_id \in DOMAIN data
  /\ Len(data[machines[1].machine_id].high_scores) = 1
  /\ Len(fetched[1].scores) = 1
  /\ data[machines[1].machine_id].high_scores[1].score = 15
  /\ fetched[1].scores[1].score = 0
  /\ events = <<>>

\* ---------------------------------------------------- claims: HTTP session

\* C32: close() never closes a session the caller supplied to the client:
\* over any sequence of _ensure_session and close calls, every session
\* close() closes (or is closing) is one _ensure_session created, and when a
\* session was supplied that happens only after the supplied one was closed
\* by somebody else.
C32_CloseSparesSuppliedSession ==
  /\ \A s \in closedByClose \cup ({closing} \ {NoSession}) :
       /\ s # SuppliedSession
       /\ s.owner = "client" /\ s.n \in 1..created
  /\ (closedByClose # {} \/ closing # NoSession) =>
       (supplied = NoSession \/ SuppliedSession \in closedSess)

C32_Witness ==
  /\ supplied = SuppliedSession
  /\ sessLog # <<>> /\ Head(sessLog) = "close"
  /\ SuppliedSession \in closedSess
  /\ closedByClose # {}

\* ------------------------------------------------------------ claims: host

\* C25: the user step creates an entry, and the reauth step replaces a stored
\* password, only when validate_credentials() returned True; on False or
\* SternAuthenticationError the form is shown with invalid_auth, on
\* SternConnectionError with cannot_connect, and the entries stay as they are.
C25_Step ==
  /\ entries' # entries =>
       /\ flowValidate' = "True"
       /\ \/ flowStep' = "user" /\ flowResult' = "create_entry"
                /\ Cardinality(DOMAIN entries') = Cardinality(DOMAIN entries) + 1
          \/ flowStep' = "reauth_confirm" /\ flowResult' = "abort"
                /\ DOMAIN entries' = DOMAIN entries
       /\ \A u \in DOMAIN entries \cap DOMAIN entries' :
            entries'[u] # entries[u] => flowStep' = "reauth_confirm"
  /\ flowValidate' \in {"False", "SternAuthenticationError"} =>
       /\ flowResult' = "form" /\ flowError' = "invalid_auth"
       /\ entries' = entries
  /\ flowValidate' = "SternConnectionError" =>
       /\ flowResult' = "form" /\ flowError' = "cannot_connect"
       /\ entries' = entries
  /\ flowResult' = "create_entry" => flowValidate' = "True"

C25_WizardsValidate == [][C25_Step]_vars

C25_Witness ==
  /\ flowStep = "reauth_confirm"
  /\ flowValidate = "False" /\ flowResult = "form" /\ flowError = "invalid_auth"
  /\ DOMAIN entries = {"u1", "u2"}
  /\ entries["u1"] = "p2"

\* C26: the static path of the frontend card is registered at most once,
\* over any sequence of async_setup_entry and async_unload_entry calls.
C26_StaticPathOnce == staticPaths <= 1

\* ------------------------------------------------- claims: get_high_scores

\* C10: get_high_scores returns at most 5 entries, in ascending order of rank.
C10_TopFiveSorted ==
  parsePc = "done" =>
    /\ Len(parsed) <= 5
    /\ \A i, j \in 1..Len(parsed) : i < j => parsed[i].rank < parsed[j].rank

C10_Witness ==
  /\ parsePc = "done"
  /\ Len(upstream) = 6
  /\ Len(parsed) = 5
  /\ parsed[5].rank = 5

\* the rank the response gives the item at index j: its "rank" field when it
\* has one, else its index + 1
SuppliedRank(j) == IF upstream[j].rank # 0 THEN upstream[j].rank ELSE j

\* C22: get_high_scores returns min(5, n) entries whose ranks are the
\* smallest supplied ranks of the n upstream items (the "rank" field when
\* the item has one, else index + 1) in ascending order.
C22_RankNormalised ==
  parsePc = "done" =>
    /\ Len(parsed) = IF Len(upstream) < 5 THEN Len(upstream) ELSE 5
    /\ \A i \in 1..Len(parsed) :
         /\ Cardinality({j \in 1..Len(upstream) : SuppliedRank(j) < parsed[i].rank})
              <= i - 1
         /\ Cardinality({j \in 1..Len(upstream) : SuppliedRank(j) <= parsed[i].rank})
              >= i

\* C23: every entry get_high_scores returns has a score >= 0 and a rank no
\* other entry of the list has.
C23_ScoreNonNegativeRankUnique ==
  parsePc = "done" =>
    /\ \A i \in 1..Len(parsed) : parsed[i].score >= 0
    /\ \A i, j \in 1..Len(parsed) : parsed[i].rank = parsed[j].rank => i = j

Init == ClientInit /\ CoordInit /\ ScoresIdle /\ HostInit /\ SessionInit

Next ==
  \/ Tick
  \/ Authenticate
  \/ ValidateCredentials
  \/ StartRead
  \/ EnsureAuthenticated
  \/ SendRequest
  \/ RetryRequest

Spec == Init /\ [][Next]_vars

CoordNext ==
  \/ StartCycle
  \/ FetchMachines
  \/ FetchScores
  \/ Publish
  \/ SetupPlatform

SpecCoord == Init /\ [][CoordNext]_vars

CancelNext ==
  \/ CoordNext
  \/ Cancel

SpecCancel == Init /\ [][CancelNext]_vars

ParsedNext ==
  \/ StartCycle
  \/ FetchMachines
  \/ FetchParsedScores
  \/ Publish

SpecParsed == Init /\ [][ParsedNext]_vars

HostNext ==
  \/ StepUser
  \/ StepReauthConfirm
  \/ SetupEntry
  \/ UnloadEntry

SpecHost == Init /\ [][HostNext]_vars

CycleNext ==
  \/ CycleStart
  \/ Tick
  \/ EnsureAuthenticated
  \/ SendRequest
  \/ RetryRequest
  \/ MachinesReturn
  \/ Publish

SpecCycle == Init /\ [][CycleNext]_vars

\* the client alone or the coordinator alone, each from the initial state
TermNext ==
  \/ cycles = 0 /\ Next
  \/ op = "none" /\ ticks = 0 /\ CoordNext /\ cycles' <= TermCycles

\* every HTTP call returns or fails: the login of an authentication, a read
\* request and its retry, get_machines() and get_high_scores(); the code
\* after the last await runs on
Returns ==
  /\ WF_vars(EnsureAuthenticated)
  /\ WF_vars(SendRequest)
  /\ WF_vars(RetryRequest)
  /\ WF_vars(FetchMachines)
  /\ WF_vars(FetchScores)
  /\ WF_vars(Publish)

SpecTerm == Init /\ [][TermNext]_vars /\ Returns

ScoresInit ==
  /\ ClientInit
  /\ CoordInit
  /\ upstream \in UpstreamLists
  /\ parsed = <<>>
  /\ parsePc = "ready"
  /\ HostInit
  /\ SessionInit

ScoresNext == ParseHighScores

SpecScores == ScoresInit /\ [][ScoresNext]_vars

SessionStart ==
  ClientInit /\ CoordInit /\ ScoresIdle /\ HostInit /\ SessionInitAny

SessionNext ==
  \/ EnsureSession
  \/ Close
  \/ CloseReturns
  \/ CallerCloses

SpecSession == SessionStart /\ [][SessionNext]_vars

====
